---------------------------- MODULE Spec2Model ----------------------------
(***************************************************************************)
(* Model of the Mechatronics Portfolio API (src/main.py, src/schemas.py).  *)
(*                                                                         *)
(* Every endpoint handler is one action.  A handler runs synchronously and *)
(* shares no in-process state with other requests, so a request is one     *)
(* atomic step: it reads its input, possibly calls the store once, and     *)
(* leaves its HTTP response in `response`.                                 *)
(*                                                                         *)
(* Text values are represented by their number of characters (the schemas  *)
(* only constrain lengths); e-mail addresses and error messages are        *)
(* sequences of characters.  The module `database` (db, create_document,   *)
(* get_documents) is imported by src/main.py but is not part of the        *)
(* sources; it is modelled from the specification's section 4.3.           *)
(***************************************************************************)
EXTENDS Integers, Sequences, FiniteSets, TLC

VARIABLES
    PROFILE,    \* src/main.py:41   module-level dict
    SKILLS,     \* src/main.py:54   module-level list
    PROJECTS,   \* src/main.py:65   module-level list of ShowcaseProject
    TIMELINE,   \* src/main.py:103  module-level list
    db,         \* src/main.py:7    the imported store handle (None or a handle)
    env,        \* os.environ as read by os.getenv (src/main.py:219-220)
    store,      \* the document store: collection name -> documents, in store order
    nextOid,    \* the next identifier the store will assign
    inserted,   \* number of documents this process has inserted so far
    storeLog,   \* what the store did during the last request (calls, error raised)
    response,   \* the HTTP response of the last request
    twin        \* a second, independent run of the diagnostic (other environment)

vars == <<PROFILE, SKILLS, PROJECTS, TIMELINE, db, env, store, nextOid,
          inserted, storeLog, response, twin>>

statics == <<PROFILE, SKILLS, PROJECTS, TIMELINE>>

-----------------------------------------------------------------------------
(* Bounds of the model *)

\* documents already in the contactmessage collection when the process starts
MaxStored == 21
\* successful inserts explored per behaviour
MaxInserts == 2
\* longest error message the store client raises
MaxErrLen == 51
\* most collection names db.list_collection_names() returns
MaxCollections == 11

(* Program constants *)

DefaultLimit == 20
TruncLen == 50
MaxCollectionsShown == 10
NameMin == 2
NameMax == 120
SubjectMax == 200
MessageMin == 10
MessageMax == 5000
SubscriberNameMax == 120
OidStrLen == 24

-----------------------------------------------------------------------------
(* Helpers *)

Min(a, b) == IF a < b THEN a ELSE b

Max(a, b) == IF a > b THEN a ELSE b

\* Python's s[:n] for n >= 0
Prefix(s, n) == SubSeq(s, 1, Min(n, Len(s)))

\* a message of n characters
Msg(n) == [i \in 1..n |-> "x"]

None == [type |-> "NoneType"]

Missing == [type |-> "missing"]

\* a str value of n characters
Str(n) == [type |-> "str", len |-> n]

IsStr(v) == v.type = "str"


-----------------------------------------------------------------------------
(* Static portfolio content, src/main.py:41-118 *)

InitialProfile ==
    [name |-> "Mechatronics Student",
     university |-> "Dedan Kimathi University of Technology (DeKUT)",
     location |-> "Nyeri, Kenya",
     tagline |-> "Building robots and smart systems that bridge hardware and software.",
     avatar |-> "/avatar.png",
     links |-> << [label |-> "GitHub", href |-> "https://github.com/"],
                  [label |-> "LinkedIn", href |-> "https://linkedin.com/"],
                  [label |-> "Email", href |-> "mailto:student@example.com"] >>]

InitialSkills ==
    << [name |-> "Control Systems", level |-> "Advanced"],
       [name |-> "Embedded C/C++", level |-> "Advanced"],
       [name |-> "Python (Robotics)", level |-> "Advanced"],
       [name |-> "ROS / ROS2", level |-> "Intermediate"],
       [name |-> "Computer Vision (OpenCV)", level |-> "Intermediate"],
       [name |-> "PCB Design (KiCad)", level |-> "Intermediate"],
       [name |-> "3D CAD (Fusion 360)", level |-> "Intermediate"],
       [name |-> "IoT (ESP32, MQTT)", level |-> "Advanced"] >>

\* a pydantic model instance: the class tag plus the declared fields
InitialProjects ==
    << [model |-> "ShowcaseProject",
        title |-> "Vision-Guided Line Follower",
        tagline |-> "A high-speed line follower with PID and camera correction",
        description |-> "Designed and built a differential drive robot ...",
        tech |-> <<"ESP32", "PID", "OpenCV", "Python", "3D Printed Chassis">>,
        highlights |-> <<"100+ samples/sec sensor fusion",
                         "On-the-fly PID tuning via BLE",
                         "Real-time telemetry dashboard">>,
        repo |-> "https://github.com/",
        demo |-> "https://youtu.be/",
        images |-> <<"/projects/line-follower-1.jpg", "/projects/line-follower-2.jpg">>],
       [model |-> "ShowcaseProject",
        title |-> "Robotic Arm with Inverse Kinematics",
        tagline |-> "5-DOF desktop arm with web-based control",
        description |-> "Built a 3D-printed 5-DOF arm driven by stepper motors ...",
        tech |-> <<"Raspberry Pi", "Python", "Flask/React", "Stepper Drivers", "IK">>,
        highlights |-> <<"Configurable workspace limits",
                         "Saved motion profiles",
                         "Camera-based calibration">>,
        repo |-> "https://github.com/",
        demo |-> "https://youtu.be/",
        images |-> <<"/projects/arm-1.jpg", "/projects/arm-2.jpg">>] >>

InitialTimeline ==
    << [year |-> "2025",
        items |-> <<"Final year at DeKUT focusing on autonomous systems",
                    "Research: Low-cost visual odometry for indoor robots">>],
       [year |-> "2024",
        items |-> <<"Internship: Industrial automation (PLC, SCADA)",
                    "Robotics club lead: organized 3 hackathons">>] >>

\* p.model_dump(): the declared fields as a plain dict, without the class
model_dump(p) == [f \in (DOMAIN p) \ {"model"} |-> p[f]]

-----------------------------------------------------------------------------
(* Validation, src/schemas.py:15-31.  FastAPI validates the request body    *)
(* against the handler's declared payload type before it calls the handler *)
(* and answers 422 with one entry per failing field.                       *)

\* an e-mail value: a str that keeps its characters
Email(chars) == [type |-> "str", len |-> Len(chars), chars |-> chars]

\* positions of character c in s
Positions(s, c) == {i \in 1..Len(s) : s[i] = c}

\* EmailStr: one "@", a non-empty local part, a domain with a dot and no
\* empty label
WellFormedEmail(v) ==
    /\ IsStr(v)
    /\ Cardinality(Positions(v.chars, "@")) = 1
    /\ LET at == CHOOSE i \in Positions(v.chars, "@") : TRUE
           dots == {i \in Positions(v.chars, ".") : i > at}
       IN /\ at > 1
          /\ dots # {}
          /\ \A i \in dots : /\ i > at + 1
                             /\ i < Len(v.chars)
                             /\ (i + 1) \notin dots

Err(field, kind) == [loc |-> field, type |-> kind]

\* min_length taken as an exclusive bound
RequiredStrMinExclusive(field, v, lo, hi) ==
    IF v.type = "missing" THEN {Err(field, "missing")}
    ELSE IF ~IsStr(v) THEN {Err(field, "string_type")}
    ELSE IF v.len <= lo THEN {Err(field, "string_too_short")}
    ELSE IF v.len > hi THEN {Err(field, "string_too_long")}
    ELSE {}

\* max_length not enforced
RequiredStrNoMax(field, v, lo, hi) ==
    IF v.type = "missing" THEN {Err(field, "missing")}
    ELSE IF ~IsStr(v) THEN {Err(field, "string_type")}
    ELSE IF v.len < lo THEN {Err(field, "string_too_short")}
    ELSE {}

\* Field(..., min_length=lo, max_length=hi) on a required str
RequiredStr(field, v, lo, hi) ==
    IF v.type = "missing" THEN {Err(field, "missing")}
    ELSE IF ~IsStr(v) THEN {Err(field, "string_type")}
    ELSE IF v.len < lo THEN {Err(field, "string_too_short")}
    ELSE IF v.len > hi THEN {Err(field, "string_too_long")}
    ELSE {}

\* Field(None, max_length=hi) on an Optional[str]
OptionalStr(field, v, hi) ==
    IF v.type = "missing" \/ v.type = "NoneType" THEN {}
    ELSE IF v.len > hi THEN {Err(field, "string_too_long")}
    ELSE {}

\* a required EmailStr
RequiredEmail(field, v) ==
    IF v.type = "missing" THEN {Err(field, "missing")}
    ELSE IF ~WellFormedEmail(v) THEN {Err(field, "value_error")}
    ELSE {}

\* a required str without constraints
RequiredAnyStr(field, v) ==
    IF v.type = "missing" THEN {Err(field, "missing")}
    ELSE IF ~IsStr(v) THEN {Err(field, "string_type")}
    ELSE {}

\* the declared fields of ContactMessage, in declaration order
ContactFields == <<"name", "email", "subject", "message", "source">>

\* errors of one field of ContactMessage
ContactFieldErrors(body, f) ==
    CASE f = "name" -> RequiredStr("name", body.name, NameMin, NameMax)
      [] f = "email" -> RequiredEmail("email", body.email)
      [] f = "subject" -> OptionalStr("subject", body.subject, SubjectMax)
      [] f = "message" -> RequiredStr("message", body.message, MessageMin, MessageMax)
      [] f = "source" -> {}

\* a validator that stops at the first failing field
ContactMessageErrorsFirstOnly(body) ==
    LET failing == {i \in 1..Len(ContactFields) :
                        ContactFieldErrors(body, ContactFields[i]) # {}}
    IN IF failing = {} THEN {}
       ELSE LET first == CHOOSE i \in failing : \A j \in failing : i <= j
            IN ContactFieldErrors(body, ContactFields[first])

\* ContactMessage: every field is validated and every failure is collected
ContactMessageErrors(body) ==
    UNION {ContactFieldErrors(body, ContactFields[i]) : i \in 1..Len(ContactFields)}

\* NewsletterSubscriber
NewsletterSubscriberErrors(body) ==
    RequiredEmail("email", body.email)
       \cup OptionalStr("name", body.name, SubscriberNameMax)

\* PortfolioVisit
PortfolioVisitErrors(body) == RequiredAnyStr("path", body.path)

\* the validated model: an optional field that was not sent takes its default None
Validated(body) == [f \in DOMAIN body |-> IF body[f].type = "missing" THEN None ELSE body[f]]

-----------------------------------------------------------------------------
(* The document store behind `database` (db, create_document,              *)
(* get_documents).  A call either reaches the store or raises an exception *)
(* whose message is the store client's.                                    *)

Collections == {"contactmessage", "newslettersubscriber", "portfoliovisit"}

\* the store's native identifier
ObjectId(n) == [type |-> "ObjectId", value |-> n]

HexDigits == <<"0", "1", "2", "3", "4", "5", "6", "7",
               "8", "9", "a", "b", "c", "d", "e", "f">>

RECURSIVE ToHex(_, _)
\* n as `width` hexadecimal digits, most significant first
ToHex(n, width) ==
    IF width = 0 THEN <<>>
    ELSE Append(ToHex(n \div 16, width - 1), HexDigits[(n % 16) + 1])

\* Python's str(v): an ObjectId renders as its 24 hexadecimal digits, a str is itself
PyStr(v) ==
    IF v.type = "ObjectId"
    THEN [type |-> "str", len |-> OidStrLen, chars |-> ToHex(v.value, OidStrLen)]
    ELSE v

NoError == <<>>

\* what a call to the store can do: succeed, or raise with a message
ErrLens == {1, TruncLen, MaxErrLen}

StoreOutcomes ==
    {[ok |-> TRUE, error |-> NoError]} \cup {[ok |-> FALSE, error |-> Msg(n)] : n \in ErrLens}

\* without a handle no call can reach the store
Possible(outcome) == (db = None) => ~outcome.ok

\* create_document(collection_name, data): insert the validated record as a
\* document, return the identifier the store assigned, as a string
create_document(st, oid, collection_name, data, outcome) ==
    IF ~outcome.ok
    THEN [raised |-> TRUE, error |-> outcome.error, value |-> None,
          store |-> st, nextOid |-> oid]
    ELSE [raised |-> FALSE, error |-> NoError, value |-> PyStr(ObjectId(oid)),
          store |-> [st EXCEPT ![collection_name] =
                        Append(@, [_id |-> ObjectId(oid)] @@ data)],
          nextOid |-> oid + 1]

\* get_documents(collection_name, limit=limit): up to `limit` stored
\* documents, in the store's order, as fresh dicts
get_documents(st, collection_name, limit, outcome) ==
    IF ~outcome.ok
    THEN [raised |-> TRUE, error |-> outcome.error, value |-> <<>>]
    ELSE [raised |-> FALSE, error |-> NoError,
          value |-> Prefix(st[collection_name], Max(limit, 0))]

-----------------------------------------------------------------------------
(* Responses *)

Idle == [calls |-> 0, error |-> NoError]

NoResponse == [op |-> "none", request |-> None, status |-> 0, body |-> None]

\* the twin run is not sent this request
TwinIdle == twin' = [twin EXCEPT !.response = NoResponse]

\* a handler's return value, sent with status 200
Ok(op, request, body) == [op |-> op, request |-> request, status |-> 200, body |-> body]

\* FastAPI's answer to a body that fails validation
Unprocessable(op, request, errs) ==
    [op |-> op, request |-> request, status |-> 422, body |-> [detail |-> errs]]

\* raise HTTPException(status_code=500, detail=str(e))
ServerError(op, request, e) ==
    [op |-> op, request |-> request, status |-> 500, body |-> [detail |-> e]]

-----------------------------------------------------------------------------
(* Static endpoints, src/main.py:121-146 *)

root ==
    /\ response' = Ok("root", None,
                      [name |-> PROFILE.name,
                       message |-> "Mechatronics Portfolio API running"])
    /\ storeLog' = Idle
    /\ TwinIdle
    /\ UNCHANGED <<statics, db, env, store, nextOid, inserted>>

get_profile ==
    /\ response' = Ok("get_profile", None, PROFILE)
    /\ storeLog' = Idle
    /\ TwinIdle
    /\ UNCHANGED <<statics, db, env, store, nextOid, inserted>>

\* a handler that hands out the list and consumes its first entry
get_skills_popping ==
    /\ response' = Ok("get_skills", None, SKILLS)
    /\ SKILLS' = IF SKILLS = <<>> THEN SKILLS ELSE Tail(SKILLS)
    /\ storeLog' = Idle
    /\ TwinIdle
    /\ UNCHANGED <<PROFILE, PROJECTS, TIMELINE, db, env, store, nextOid, inserted>>

get_skills ==
    /\ response' = Ok("get_skills", None, SKILLS)
    /\ storeLog' = Idle
    /\ TwinIdle
    /\ UNCHANGED <<statics, db, env, store, nextOid, inserted>>

get_projects ==
    /\ response' = Ok("get_projects", None,
                      [i \in 1..Len(PROJECTS) |-> model_dump(PROJECTS[i])])
    /\ storeLog' = Idle
    /\ TwinIdle
    /\ UNCHANGED <<statics, db, env, store, nextOid, inserted>>

get_timeline ==
    /\ response' = Ok("get_timeline", None, TIMELINE)
    /\ storeLog' = Idle
    /\ TwinIdle
    /\ UNCHANGED <<statics, db, env, store, nextOid, inserted>>

-----------------------------------------------------------------------------
(* Persisted endpoints, src/main.py:150-187 *)

\* the insert is attempted a second time after a failure
WriteHandlerRetrying(op, collection_name, body, errs, outcome) ==
    /\ outcome.ok => inserted < MaxInserts
    /\ IF errs # {}
       THEN /\ response' = Unprocessable(op, body, errs)
            /\ storeLog' = Idle
            /\ UNCHANGED <<store, nextOid, inserted>>
       ELSE LET r == create_document(store, nextOid, collection_name,
                                     Validated(body), outcome)
            IN /\ storeLog' = [calls |-> IF r.raised THEN 2 ELSE 1, error |-> r.error]
               /\ store' = r.store
               /\ nextOid' = r.nextOid
               /\ inserted' = IF r.raised THEN inserted ELSE inserted + 1
               /\ response' = IF r.raised
                              THEN ServerError(op, body, r.error)
                              ELSE Ok(op, body, [status |-> "ok", id |-> r.value])
    /\ TwinIdle
    /\ UNCHANGED <<statics, db, env>>

\* the exception's message is cut before it is sent
WriteHandlerTruncating(op, collection_name, body, errs, outcome) ==
    /\ outcome.ok => inserted < MaxInserts
    /\ IF errs # {}
       THEN /\ response' = Unprocessable(op, body, errs)
            /\ storeLog' = Idle
            /\ UNCHANGED <<store, nextOid, inserted>>
       ELSE LET r == create_document(store, nextOid, collection_name,
                                     Validated(body), outcome)
            IN /\ storeLog' = [calls |-> 1, error |-> r.error]
               /\ store' = r.store
               /\ nextOid' = r.nextOid
               /\ inserted' = IF r.raised THEN inserted ELSE inserted + 1
               /\ response' = IF r.raised
                              THEN ServerError(op, body, Prefix(r.error, TruncLen))
                              ELSE Ok(op, body, [status |-> "ok", id |-> r.value])
    /\ TwinIdle
    /\ UNCHANGED <<statics, db, env>>

\* the body of submit_contact, subscribe and log_visit: a body that fails
\* validation never reaches the handler; otherwise
\*     try:    doc_id = create_document(collection, payload)
\*             return {"status": "ok", "id": doc_id}
\*     except: raise HTTPException(status_code=500, detail=str(e))
WriteHandler(op, collection_name, body, errs, outcome) ==
    /\ outcome.ok => inserted < MaxInserts
    /\ IF errs # {}
       THEN /\ response' = Unprocessable(op, body, errs)
            /\ storeLog' = Idle
            /\ UNCHANGED <<store, nextOid, inserted>>
       ELSE LET r == create_document(store, nextOid, collection_name,
                                     Validated(body), outcome)
            IN /\ storeLog' = [calls |-> 1, error |-> r.error]
               /\ store' = r.store
               /\ nextOid' = r.nextOid
               /\ inserted' = IF r.raised THEN inserted ELSE inserted + 1
               /\ response' = IF r.raised
                              THEN ServerError(op, body, r.error)
                              ELSE Ok(op, body, [status |-> "ok", id |-> r.value])
    /\ TwinIdle
    /\ UNCHANGED <<statics, db, env>>

\* a request body for POST /contact
ContactBody(name, email, subject, message, source) ==
    [name |-> name, email |-> email, subject |-> subject,
     message |-> message, source |-> source]

GoodEmail == Email(<<"j", "o", "@", "e", "x", "a", "m", "p", "l", "e", ".", "c", "o", "m">>)

BadEmail == Email(<<"b", "a", "d">>)

\* the smallest and the largest valid contact message
SmallestContact == ContactBody(Str(NameMin), GoodEmail, Missing, Str(MessageMin), Missing)

LargestContact ==
    ContactBody(Str(NameMax), GoodEmail, Str(SubjectMax), Str(MessageMax), Str(3))

\* {"name":"J","email":"bad","message":"hi"}
JBadHi == ContactBody(Str(1), BadEmail, Missing, Str(2), Missing)

\* the bodies sent to POST /contact: the two valid corners, every single
\* violation of the smallest one, and the example with three violations
ContactBodies ==
    {SmallestContact, LargestContact, JBadHi}
      \cup {[SmallestContact EXCEPT !.name = v] :
                v \in {Missing, Str(NameMin - 1), Str(NameMax + 1)}}
      \cup {[SmallestContact EXCEPT !.email = v] : v \in {Missing, BadEmail}}
      \cup {[SmallestContact EXCEPT !.subject = v] : v \in {None, Str(SubjectMax + 1)}}
      \cup {[LargestContact EXCEPT !.message = v] :
                v \in {Missing, Str(0), Str(MessageMin - 1), Str(MessageMax + 1)}}

SubscriberBodies ==
    {[email |-> e, name |-> n] :
        e \in {GoodEmail, BadEmail},
        n \in {Str(SubscriberNameMax), Str(SubscriberNameMax + 1)}}

VisitBodies ==
    {[path |-> p, user_agent |-> Missing, referrer |-> Missing] : p \in {Missing, Str(1)}}

\* the outcomes the store can have for a request: a body that fails
\* validation never gets to the store, so its outcome is not drawn
OutcomesFor(errs) ==
    IF errs # {}
    THEN {[ok |-> FALSE, error |-> NoError]}
    ELSE {o \in StoreOutcomes : Possible(o)}

\* POST /contact with a body drawn from `bodies`
SubmitContactFrom(bodies) ==
    \E body \in bodies :
        \E outcome \in OutcomesFor(ContactMessageErrors(body)) :
            WriteHandler("submit_contact", "contactmessage", body,
                         ContactMessageErrors(body), outcome)

submit_contact == SubmitContactFrom(ContactBodies)

subscribe ==
    \E body \in SubscriberBodies :
        \E outcome \in OutcomesFor(NewsletterSubscriberErrors(body)) :
            WriteHandler("subscribe", "newslettersubscriber", body,
                         NewsletterSubscriberErrors(body), outcome)

log_visit ==
    \E body \in VisitBodies :
        \E outcome \in OutcomesFor(PortfolioVisitErrors(body)) :
            WriteHandler("log_visit", "portfoliovisit", body,
                         PortfolioVisitErrors(body), outcome)

\* the query parameter limit: not given, or an int
PyInt(n) == [type |-> "int", value |-> n]

Limits ==
    {Missing} \cup {PyInt(n) : n \in {-1, 0, 1, DefaultLimit, DefaultLimit + 1,
                                      MaxStored + MaxInserts + 1}}

\* def list_contacts(limit: int = 20)
LimitOf(arg) == IF arg.type = "missing" THEN DefaultLimit ELSE arg.value

\* the loop of list_contacts: it["_id"] = str(it["_id"]) when "_id" in it
StringifyIds(items) ==
    [i \in 1..Len(items) |->
        IF "_id" \in DOMAIN items[i]
        THEN [items[i] EXCEPT !._id = PyStr(@)]
        ELSE items[i]]

\* the documents are returned as the store gave them
ListContactsRaw(arg, outcome) ==
    LET r == get_documents(store, "contactmessage", LimitOf(arg), outcome)
    IN /\ storeLog' = [calls |-> 1, error |-> r.error]
       /\ response' = IF r.raised
                      THEN ServerError("list_contacts", arg, r.error)
                      ELSE Ok("list_contacts", arg, r.value)
       /\ TwinIdle
    /\ UNCHANGED <<statics, db, env, store, nextOid, inserted>>

ListContacts(arg, outcome) ==
    LET r == get_documents(store, "contactmessage", LimitOf(arg), outcome)
    IN /\ storeLog' = [calls |-> 1, error |-> r.error]
       /\ response' = IF r.raised
                      THEN ServerError("list_contacts", arg, r.error)
                      ELSE Ok("list_contacts", arg, StringifyIds(r.value))
       /\ TwinIdle
    /\ UNCHANGED <<statics, db, env, store, nextOid, inserted>>

list_contacts ==
    \E arg \in Limits, outcome \in StoreOutcomes :
        /\ Possible(outcome)
        /\ ListContacts(arg, outcome)

-----------------------------------------------------------------------------
(* Diagnostics, src/main.py:191-222.  The status texts are written in      *)
(* ASCII: [OK] for the check mark, [X] for the cross, [!] for the warning  *)
(* sign.                                                                   *)

\* a str literal, and an f-string made of a literal and formatted characters
Text(s) == [type |-> "str", text |-> s, tail |-> <<>>]

Fmt(s, chars) == [type |-> "str", text |-> s, tail |-> chars]

\* an environment value: os.getenv gives None when the variable is unset
EnvStr(s, n) == [type |-> "str", text |-> s, len |-> n]

\* Python truth of os.getenv's result
Truthy(v) == v.type = "str" /\ v.len > 0

\* a store handle
Database(name) == [type |-> "Database", name |-> name]

\* what evaluating db.name does: a value, or an exception
AttributeReads == StoreOutcomes

\* what db.list_collection_names() does: k names, or an exception
Introspections ==
    {[ok |-> TRUE, error |-> NoError, names |-> [i \in 1..k |-> i]] : k \in 0..MaxCollections}
      \cup {[ok |-> FALSE, error |-> Msg(n), names |-> <<>>] : n \in ErrLens}

\* what the store does during one run of the diagnostic: db.name raises and
\* the introspection is never called, or db.name is read and the
\* introspection answers
Probes ==
    {[attr |-> a, intro |-> CHOOSE i \in Introspections : ~i.ok] :
        a \in {x \in AttributeReads : ~x.ok}}
      \cup {[attr |-> CHOOSE a \in AttributeReads : a.ok, intro |-> i] : i \in Introspections}

InitialResponse ==
    [backend |-> Text("[OK] Running"),
     database |-> Text("[X] Not Available"),
     database_url |-> None,
     database_name |-> None,
     connection_status |-> Text("Not Connected"),
     collections |-> <<>>]

\* lines 202-217: the try block
Probe(dbh, attr, intro) ==
    IF dbh.type = "NoneType"
    THEN [InitialResponse EXCEPT !.database = Text("[!]  Available but not initialized")]
    ELSE LET a == [InitialResponse EXCEPT !.database = Text("[OK] Available"),
                                          !.database_url = Text("[OK] Configured")]
         IN IF ~attr.ok
            THEN [a EXCEPT !.database = Fmt("[X] Error: ", Prefix(attr.error, TruncLen))]
            ELSE LET b == [a EXCEPT !.database_name =
                                        IF "name" \in DOMAIN dbh
                                        THEN Text(dbh.name)
                                        ELSE Text("[OK] Connected"),
                                    !.connection_status = Text("Connected")]
                 IN IF intro.ok
                    THEN [b EXCEPT !.collections = Prefix(intro.names, MaxCollectionsShown),
                                   !.database = Text("[OK] Connected & Working")]
                    ELSE [b EXCEPT !.database =
                                     Fmt("[!]  Connected but Error: ",
                                         Prefix(intro.error, TruncLen))]

\* lines 219-220
EnvFlag(v) == IF Truthy(v) THEN Text("[OK] Set") ELSE Text("[X] Not Set")

\* every collection name is reported
TestDatabaseUncut(dbh, environ, attr, intro) ==
    LET r == Probe(dbh, attr, intro)
    IN Ok("test_database", None,
          [r EXCEPT !.collections = IF intro.ok /\ dbh.type # "NoneType" /\ attr.ok
                                    THEN intro.names ELSE @,
                    !.database_url = EnvFlag(environ.DATABASE_URL),
                    !.database_name = EnvFlag(environ.DATABASE_NAME)])

\* the two environment lines are left out
TestDatabaseNoEnvLines(dbh, environ, attr, intro) ==
    Ok("test_database", None, Probe(dbh, attr, intro))

\* the response of test_database
TestDatabase(dbh, environ, attr, intro) ==
    LET r == Probe(dbh, attr, intro)
    IN Ok("test_database", None,
          [r EXCEPT !.database_url = EnvFlag(environ.DATABASE_URL),
                    !.database_name = EnvFlag(environ.DATABASE_NAME)])

\* GET /test, answered by this process and by the twin run, which gets the
\* same answers from its store
test_database ==
    \E p \in Probes :
        /\ response' = TestDatabase(db, env, p.attr, p.intro)
        /\ twin' = [twin EXCEPT
                      !.response = TestDatabase(twin.db, twin.env, p.attr, p.intro)]
        /\ storeLog' = [calls |-> IF db = None \/ ~p.attr.ok THEN 0 ELSE 1,
                        error |-> IF db = None THEN NoError
                                  ELSE IF ~p.attr.ok THEN p.attr.error ELSE p.intro.error]
        /\ UNCHANGED <<statics, db, env, store, nextOid, inserted>>

-----------------------------------------------------------------------------
(* The service *)

\* documents found in the contactmessage collection at start: records this
\* service stored, and every third one a record another client wrote, with
\* its own string identifier and fields the schema would reject
StoredDoc(i) ==
    IF i % 3 = 0
    THEN [_id |-> [type |-> "str", len |-> 6, chars |-> ToHex(i, 6)],
          name |-> Str(1), message |-> Str(3)]
    ELSE [_id |-> ObjectId(i)] @@
            Validated(IF i % 3 = 1 THEN SmallestContact ELSE LargestContact)

StoreWith(n) ==
    [c \in Collections |->
        IF c = "contactmessage" THEN [i \in 1..n |-> StoredDoc(i)] ELSE <<>>]

Unset == [DATABASE_URL |-> None, DATABASE_NAME |-> None]

Configured ==
    [DATABASE_URL |-> EnvStr("mongodb://a", 11), DATABASE_NAME |-> EnvStr("portfolio_a", 11)]

\* a process started without the store's settings has no handle, one
\* started with them has one
Deployments ==
    {[db |-> None, env |-> Unset], [db |-> Database("portfolio_a"), env |-> Configured]}

InitWith(deployments, sizes) ==
    /\ PROFILE = InitialProfile
    /\ SKILLS = InitialSkills
    /\ PROJECTS = InitialProjects
    /\ TIMELINE = InitialTimeline
    /\ \E d \in deployments : db = d.db /\ env = d.env
    /\ \E n \in sizes : store = StoreWith(n) /\ nextOid = n + 1
    /\ inserted = 0
    /\ storeLog = Idle

Init ==
    /\ InitWith(Deployments, {0, MaxStored})
    /\ response = NoResponse
    /\ twin = [db |-> db, env |-> env, response |-> NoResponse]

Next ==
    \/ root
    \/ get_profile
    \/ get_skills
    \/ get_projects
    \/ get_timeline
    \/ submit_contact
    \/ list_contacts
    \/ subscribe
    \/ log_visit
    \/ test_database

Spec == Init /\ [][Next]_vars

-----------------------------------------------------------------------------
(* Validation alone: the body of POST /contact checked against             *)
(* ContactMessage, over every combination of the fields' boundary values   *)

Emails ==
    {GoodEmail, BadEmail,
     Email(<<"a", ".", "b", "@", "c", ".", "d", "e">>),
     Email(<<"a", "@", "b">>),
     Email(<<"@", "b", ".", "c", "o">>),
     Email(<<"a", "@", "b", ".">>),
     Email(<<"a", "@", ".", "c", "o">>),
     Email(<<"a", "@", "@", "b", ".", "c", "o">>)}

AllContactBodies ==
    {ContactBody(n, e, s, m, src) :
        n \in {Missing, None, Str(0), Str(NameMin - 1), Str(NameMin), Str(NameMax),
               Str(NameMax + 1)},
        e \in {Missing} \cup Emails,
        s \in {Missing, None, Str(0), Str(SubjectMax), Str(SubjectMax + 1)},
        m \in {Missing, None, Str(0), Str(2), Str(MessageMin - 1), Str(MessageMin),
               Str(MessageMax), Str(MessageMax + 1)},
        src \in {Missing, Str(3)}}

\* a request body that has arrived and is not yet validated
Pending(body) == [op |-> "pending", request |-> body, status |-> 0, body |-> None]

\* ContactMessage(**body): the validated record, or the validation failure
validate_contact ==
    /\ response.op = "pending"
    /\ LET body == response.request
       IN response' = IF ContactMessageErrors(body) = {}
                      THEN Ok("validate_contact", body, Validated(body))
                      ELSE Unprocessable("validate_contact", body,
                                         ContactMessageErrors(body))
    /\ storeLog' = Idle
    /\ TwinIdle
    /\ UNCHANGED <<statics, db, env, store, nextOid, inserted>>

InitValidation ==
    /\ InitWith(Deployments, {0})
    /\ response \in {Pending(body) : body \in AllContactBodies}
    /\ twin = [db |-> db, env |-> env, response |-> NoResponse]

NextValidation == validate_contact

SpecValidation == InitValidation /\ [][NextValidation]_vars

-----------------------------------------------------------------------------
(* Diagnostics alone: two runs of the service side by side, each with its  *)
(* own environment and handle, asked for GET /test at the same time        *)

Urls == {None, EnvStr("", 0), EnvStr("mongodb://a", 11), EnvStr("mongodb://b", 11)}

Names == {None, EnvStr("", 0), EnvStr("portfolio_a", 11)}

Environments == {[DATABASE_URL |-> u, DATABASE_NAME |-> n] : u \in Urls, n \in Names}

\* a handle, with or without a name attribute
Handles == {Database("portfolio_a"), Database("portfolio_b"), [type |-> "Database"]}

InitDiag ==
    /\ InitWith({[db |-> h, env |-> e] : h \in {None} \cup Handles, e \in Environments},
                {0})
    /\ response = NoResponse
    /\ \E h \in {None} \cup Handles, e \in Environments :
          /\ h.type = db.type
          /\ twin = [db |-> h, env |-> e, response |-> NoResponse]

NextDiag == test_database

SpecDiag == InitDiag /\ [][NextDiag]_vars

-----------------------------------------------------------------------------
(* Properties.  The conditions of the claims are written out here with the *)
(* numbers the documentation gives, independently of the definitions above *)

WriteOps == {"submit_contact", "subscribe", "log_visit"}

\* the addresses among Emails that are well formed
WellFormedAddresses == {GoodEmail, Email(<<"a", ".", "b", "@", "c", ".", "d", "e">>)}

Absent(v) == v.type \in {"missing", "NoneType"}

NameOk(b) == b.name.type = "str" /\ b.name.len >= 2 /\ b.name.len <= 120

EmailOk(b) == b.email \in WellFormedAddresses

SubjectOk(b) == Absent(b.subject) \/ (b.subject.type = "str" /\ b.subject.len <= 200)

MessageOk(b) == b.message.type = "str" /\ b.message.len >= 10 /\ b.message.len <= 5000

ValidContact(b) == NameOk(b) /\ EmailOk(b) /\ SubjectOk(b) /\ MessageOk(b)

\* the fields of a contact body that break a constraint
ViolatedFields(b) ==
    {f \in {"name", "email", "subject", "message"} :
        \/ f = "name" /\ ~NameOk(b)
        \/ f = "email" /\ ~EmailOk(b)
        \/ f = "subject" /\ ~SubjectOk(b)
        \/ f = "message" /\ ~MessageOk(b)}

ReportedFields(r) == {e.loc : e \in r.body.detail}

Contacts == store["contactmessage"]

\* C1 as stated: every valid contact message submitted to POST /contact is
\* answered {status: "ok", id: <non-empty string>}.
C1_ValidAlwaysSucceeds ==
    (response.op = "submit_contact" /\ ValidContact(response.request))
        => /\ response.status = 200
           /\ response.body.status = "ok"
           /\ response.body.id.len > 0

\* C1 amended: every valid contact message submitted to POST /contact while
\* the store accepts the write is answered {status: "ok", id: <string>},
\* where id is the 24-character rendering of the identifier the store
\* assigned to the document just inserted, which holds the validated record.
C1_ValidSucceedsWhenStoreAccepts ==
    (/\ response.op = "submit_contact"
     /\ ValidContact(response.request)
     /\ storeLog.error = NoError)
        => /\ response.status = 200
           /\ response.body.status = "ok"
           /\ response.body.id.type = "str"
           /\ response.body.id.len = 24
           /\ Len(response.body.id.chars) = 24
           /\ storeLog.calls = 1
           /\ Len(Contacts) > 0
           /\ LET last == Contacts[Len(Contacts)]
              IN /\ last._id.type = "ObjectId"
                 /\ PyStr(last._id) = response.body.id
                 /\ \A f \in DOMAIN response.request :
                       last[f] = Validated(response.request)[f]
           /\ \A i \in 1..(Len(Contacts) - 1) :
                 PyStr(Contacts[i]._id) # response.body.id

\* C1 witness: the largest valid message was stored after an earlier insert
C1_Witness ==
    /\ response.op = "submit_contact"
    /\ response.request = LargestContact
    /\ response.status = 200
    /\ inserted > 1

BadMessage(b) ==
    b.message.type = "str" /\ (b.message.len < 10 \/ b.message.len > 5000)

\* C2: a POST /contact whose message is shorter than 10 or longer than 5000
\* characters is answered with a validation failure naming the message,
\* makes no call to the store and leaves the store as it was.
C2_BadMessageNeverStored ==
    [][(response'.op = "submit_contact" /\ BadMessage(response'.request))
          => /\ response'.status = 422
             /\ "message" \in ReportedFields(response')
             /\ storeLog'.calls = 0
             /\ store' = store
             /\ nextOid' = nextOid
             /\ inserted' = inserted]_vars

\* C2 witness: a message of more than 5000 characters was rejected by a
\* process with a working store that had already stored a document
C2_Witness ==
    /\ response.op = "submit_contact"
    /\ response.request.message.type = "str"
    /\ response.request.message.len > 5000
    /\ response.status = 422
    /\ inserted > 0

\* C3: GET /contact with limit=N returns at most N documents for every
\* integer N the endpoint accepts, negative ones and 0 included, and at most
\* 20 without a limit.
C3_AtMostLimitAnyInt ==
    (response.op = "list_contacts" /\ response.status = 200)
        => Len(response.body) <= LimitOf(response.request)

\* C4: PROFILE, SKILLS, PROJECTS and TIMELINE never change, and every static
\* read returns the content the process started with, whatever requests came
\* before; GET /skills returns the same 8 entries.
C4_StaticsNeverChange ==
    /\ PROFILE = InitialProfile
    /\ SKILLS = InitialSkills
    /\ PROJECTS = InitialProjects
    /\ TIMELINE = InitialTimeline
    /\ response.op = "get_profile" => response.body = InitialProfile
    /\ response.op = "get_skills" =>
          (response.body = InitialSkills /\ Len(response.body) = 8)
    /\ response.op = "get_projects" =>
          response.body = [i \in 1..2 |-> model_dump(InitialProjects[i])]
    /\ response.op = "get_timeline" => response.body = InitialTimeline

\* C4 witness: the skills were read after the process had stored documents
C4_Witness ==
    /\ response.op = "get_skills"
    /\ response.status = 200
    /\ inserted > 1

\* C5: when the store fails during a write endpoint, the endpoint has made
\* exactly one insert attempt, answers 500 with the error's text as detail,
\* and the store, its identifiers and the rest of the process state are as
\* they were before the request.
C5_FailedWriteLeavesNoTrace ==
    [][(response'.op \in WriteOps /\ storeLog'.error # NoError)
          => /\ storeLog'.calls = 1
             /\ response'.status = 500
             /\ response'.body.detail = storeLog'.error
             /\ store' = store
             /\ nextOid' = nextOid
             /\ inserted' = inserted
             /\ UNCHANGED <<statics, db, env>>]_vars

\* C5 witness: a write failed after an earlier write had succeeded
C5_Witness ==
    /\ response.op \in WriteOps
    /\ response.status = 500
    /\ storeLog.error # NoError
    /\ inserted > 0

\* C6 as stated: the detail of a storage failure is the underlying message
\* truncated, so its length stays below a bound that does not depend on the
\* message (here: any bound below the longest message the store raises).
C6_DetailTruncated ==
    (response.status = 500 /\ response.op \in WriteOps \cup {"list_contacts"})
        => \E bound \in 0..(MaxErrLen - 1) : Len(response.body.detail) <= bound

\* C6 amended: the detail of a storage failure in submit_contact,
\* list_contacts, subscribe and log_visit is the store's error message in
\* full, whatever its length.
C6_DetailIsWholeMessage ==
    (response.op \in WriteOps \cup {"list_contacts"} /\ storeLog.error # NoError)
        => /\ response.status = 500
           /\ response.body.detail = storeLog.error
           /\ Len(response.body.detail) = Len(storeLog.error)

\* C6 witness: a write failed with a message longer than 50 characters
C6_Witness ==
    /\ response.op \in WriteOps
    /\ response.status = 500
    /\ Len(storeLog.error) > 50
    /\ Len(response.body.detail) > 50

Diag == response.body

\* the status texts that describe a failure, and the one that reports success
FailureTexts ==
    {"[!]  Available but not initialized", "[!]  Connected but Error: ", "[X] Error: "}

\* C7: GET /test answers 200 in every store state; the database field is a
\* status text that describes the state of the store (not initialized, the
\* error raised cut to 50 characters, or connected and working), and at
\* most 10 collection names are returned.
C7_DiagnosticNeverFails ==
    response.op = "test_database"
        => /\ response.status = 200
           /\ Len(Diag.collections) <= 10
           /\ Diag.database.type = "str"
           /\ db = None =>
                 /\ Diag.database = Text("[!]  Available but not initialized")
                 /\ Diag.collections = <<>>
           /\ (db # None /\ storeLog.error # NoError) =>
                 /\ Diag.database.text \in {"[!]  Connected but Error: ", "[X] Error: "}
                 /\ Len(Diag.database.tail) <= 50
                 /\ Diag.database.tail = Prefix(storeLog.error, 50)
                 /\ Diag.collections = <<>>
           /\ (db # None /\ storeLog.error = NoError) =>
                 Diag.database = Text("[OK] Connected & Working")
           /\ Diag.database.text \in FailureTexts <=> (db = None \/ storeLog.error # NoError)

\* C7 witness: the introspection call raised a message of more than 50
\* characters and the diagnostic reported its first 50
C7_Witness ==
    /\ response.op = "test_database"
    /\ db # None
    /\ Len(storeLog.error) > 50
    /\ Diag.database.text = "[!]  Connected but Error: "
    /\ Len(Diag.database.tail) = 50

Flags == {Text("[OK] Set"), Text("[X] Not Set")}

\* an environment variable that is present, whatever its value
Present(v) == v.type = "str"

\* both runs of the diagnostic have answered
BothAnswered == response.op = "test_database" /\ twin.response.op = "test_database"

\* C8 as stated: database_url and database_name are each "[OK] Set" or
\* "[X] Not Set", the latter when the variable is absent, and two runs in
\* which both variables are set, to whatever values, report the same two
\* fields.
C8_PresenceOnly ==
    BothAnswered
        => /\ Diag.database_url \in Flags
           /\ Diag.database_name \in Flags
           /\ ~Present(env.DATABASE_URL) => Diag.database_url = Text("[X] Not Set")
           /\ ~Present(env.DATABASE_NAME) => Diag.database_name = Text("[X] Not Set")
           /\ (Present(env.DATABASE_URL) /\ Present(twin.env.DATABASE_URL))
                 => twin.response.body.database_url = Diag.database_url
           /\ (Present(env.DATABASE_NAME) /\ Present(twin.env.DATABASE_NAME))
                 => twin.response.body.database_name = Diag.database_name

\* C8 amended: database_url and database_name are each "[OK] Set" or
\* "[X] Not Set", the latter when the variable is absent or empty, and two
\* runs in which both variables are set to non-empty values, whatever they
\* are and whatever the connected database is called, report the same two
\* fields.
C8_NonEmptyOnly ==
    BothAnswered
        => /\ Diag.database_url \in Flags
           /\ Diag.database_name \in Flags
           /\ Diag.database_url = Text("[OK] Set") <=>
                 (Present(env.DATABASE_URL) /\ env.DATABASE_URL.len > 0)
           /\ Diag.database_name = Text("[OK] Set") <=>
                 (Present(env.DATABASE_NAME) /\ env.DATABASE_NAME.len > 0)
           /\ (/\ Present(env.DATABASE_URL) /\ env.DATABASE_URL.len > 0
               /\ Present(twin.env.DATABASE_URL) /\ twin.env.DATABASE_URL.len > 0)
                 => twin.response.body.database_url = Diag.database_url
           /\ (/\ Present(env.DATABASE_NAME) /\ env.DATABASE_NAME.len > 0
               /\ Present(twin.env.DATABASE_NAME) /\ twin.env.DATABASE_NAME.len > 0)
                 => twin.response.body.database_name = Diag.database_name

\* C8 witness: two runs with different store addresses and differently
\* named databases have both answered
C8_Witness ==
    /\ BothAnswered
    /\ Present(env.DATABASE_URL) /\ env.DATABASE_URL.len > 0
    /\ Present(twin.env.DATABASE_URL) /\ twin.env.DATABASE_URL.len > 0
    /\ env.DATABASE_URL # twin.env.DATABASE_URL
    /\ db = Database("portfolio_a")
    /\ twin.db = Database("portfolio_b")
    /\ Diag.database_url = Text("[OK] Set")

\* the document the list endpoint must return for a stored document
Rendered(doc) ==
    [f \in DOMAIN doc |->
        IF f # "_id" THEN doc[f]
        ELSE IF doc[f].type = "ObjectId"
             THEN [type |-> "str", len |-> 24, chars |-> ToHex(doc[f].value, 24)]
             ELSE doc[f]]

\* C9: every document GET /contact returns carries its _id as a string, and
\* is otherwise the stored document, whether or not it satisfies the schema.
C9_IdsAreStrings ==
    (response.op = "list_contacts" /\ response.status = 200)
        => /\ Len(response.body) <= Len(Contacts)
           /\ \A i \in 1..Len(response.body) :
                 /\ response.body[i]._id.type = "str"
                 /\ response.body[i] = Rendered(Contacts[i])

\* C9 witness: the list holds a document with a native identifier, rendered,
\* and a stored document the schema would reject
C9_Witness ==
    /\ response.op = "list_contacts"
    /\ response.status = 200
    /\ Len(response.body) > 2
    /\ Contacts[1]._id.type = "ObjectId"
    /\ response.body[1]._id.type = "str"
    /\ response.body[3].message.len < 10

\* C10: validating a contact body gives the validated record when no field
\* breaks a constraint, and otherwise a failure that reports exactly the
\* fields that break one; name "J", email "bad", message "hi" reports name,
\* email and message.
C10_EveryViolationReported ==
    response.op = "validate_contact"
        => /\ response.status = 422 <=> ViolatedFields(response.request) # {}
           /\ response.status = 422 =>
                 ReportedFields(response) = ViolatedFields(response.request)
           /\ response.status # 422 =>
                 /\ response.status = 200
                 /\ ValidContact(response.request)
                 /\ \A f \in DOMAIN response.request :
                       response.body[f] =
                          IF response.request[f].type = "missing"
                          THEN None ELSE response.request[f]
           /\ response.request = JBadHi =>
                 ReportedFields(response) = {"name", "email", "message"}

\* C10 witness: the body with name "J", email "bad" and message "hi" was
\* validated and rejected
C10_Witness ==
    /\ response.op = "validate_contact"
    /\ response.request = JBadHi
    /\ response.status = 422
    /\ Cardinality(response.body.detail) = 3

=============================================================================
